---------------------------- MODULE Spec2Model ----------------------------
(***************************************************************************)
(* Playlist reconciliation engine of autoalex (src/src/services/           *)
(* plex_service.py): update_recent_raves (Incremental-Capped),             *)
(* sync_jam_jar (Full-Replace) and sync_staff_picks (Broadcast).           *)
(*                                                                         *)
(* The Plex catalog is the engine's only state.  It is modelled at the     *)
(* interface the code uses: per user a set of named playlists, each an     *)
(* ordered sequence of track objects (playlist.items(), addItems,          *)
(* removeItems, createPlaylist), and per user the ordered result of the    *)
(* 5-star search.  A track object carries ratingKey, addedAt and           *)
(* lastRatedAt; a playlist returns the objects that were put into it.      *)
(* Every catalog call may raise; the code catches per replica.             *)
(*                                                                         *)
(* The caller (src/src/main.py) runs every command in a thread of its own  *)
(* and does not wait for the one before: invocations of a method may be    *)
(* in flight at once.  Each invocation has a frame of its own (its locals  *)
(* and its position); one step of the model is one catalog call of one     *)
(* invocation, or the local computation between two calls.                 *)
(***************************************************************************)
EXTENDS Integers, Sequences, FiniteSets, TLC

\* ------------------------------------------------------------------ bounds

\* Largest timestamp of the model; NoTime stands for None (no timestamp).
MaxTs == 2
\* Largest max_songs argument tried (the code's default is 50).
MaxCap == 2
\* Catalog calls that may raise in one behaviour (injected failures).
MaxFails == 1
\* Commands issued in one behaviour that has more than one (one after the
\* other, or without waiting).
MaxRuns == 2

NoTime == 0

Users == {"A", "B", "C", "D"}
\* The scope of self.plex itself (the server owner).
Admin == "A"
\* account.users(): every user of the account but the owner, in its order.
AccountUsers == <<"B", "C", "D">>

RavesName == "Recent Raves"
JamName == "Jam Jar"
StaffName == "Staff Picks"
PlaylistNames == {RavesName, JamName, StaffName}

Times == 1..MaxTs
OptTimes == {NoTime} \cup Times

\* ----------------------------------------------------------------- helpers

Range(s) == {s[i] : i \in 1..Len(s)}

KeysOf(s) == {s[i].ratingKey : i \in 1..Len(s)}

Track(k, a, r) == [ratingKey |-> k, addedAt |-> a, lastRatedAt |-> r]

\* What the lookup "for pl in user_plex.playlists(): if pl.title == name"
\* leaves in `playlist`: the first playlist of the title, with its items, or
\* None.
Playlist(items) == [exists |-> TRUE, items |-> items]
NoPlaylist == [exists |-> FALSE, items |-> <<>>]

\* The sort without reverse=True: ascending, stable.
SortAscStable(keys) ==
    LET n == Len(keys)
        rank(i) == Cardinality({j \in 1..n :
                        \/ keys[j] < keys[i]
                        \/ (keys[j] = keys[i] /\ j < i)}) + 1
    IN  [r \in 1..n |-> CHOOSE i \in 1..n : rank(i) = r]

\* list.sort(key=..., reverse=True) and sorted(..., reverse=True), given the
\* sequence of the elements' sort keys: the position in the input of the
\* element that comes out at each rank.  Python's sort is stable, also under
\* reverse=True, so elements with equal keys keep their order in the input.
SortDescStable(keys) ==
    LET n == Len(keys)
        rank(i) == Cardinality({j \in 1..n :
                        \/ keys[j] > keys[i]
                        \/ (keys[j] = keys[i] /\ j < i)}) + 1
    IN  [r \in 1..n |-> CHOOSE i \in 1..n : rank(i) = r]

\* ------------------------------------------- rating merge (update_recent_raves)

\* The search results collected without the test of lastRatedAt.
RatedAll(results) == results

\* The tracks of one contributor's search results that are collected:
\* hasattr(track, 'lastRatedAt') and track.lastRatedAt.
RatedWithTime(results) == SelectSeq(results, LAMBDA t : t.lastRatedAt # NoTime)

\* track_users[track.ratingKey] = username for every collected track: a later
\* contributor overwrites an earlier one.
SetTrackUsers(tu, tracks, username) ==
    [k \in (DOMAIN tu) \cup KeysOf(tracks) |->
        IF k \in KeysOf(tracks) THEN username ELSE tu[k]]

\* all_rated_tracks.sort(key=lambda t: t.lastRatedAt, reverse=True)
SortByRated(tracks) ==
    LET p == SortDescStable([i \in 1..Len(tracks) |-> tracks[i].lastRatedAt])
    IN  [r \in 1..Len(tracks) |-> tracks[p[r]]]

\* The dedup loop: first occurrence of each ratingKey, break once
\* len(unique_tracks) >= max_songs (tested after the append).
RECURSIVE DedupCap(_, _, _, _)
DedupCap(sorted, i, unique, max) ==
    IF i > Len(sorted) THEN unique
    ELSE IF sorted[i].ratingKey \notin KeysOf(unique)
         THEN LET u2 == Append(unique, sorted[i])
              IN  IF Len(u2) >= max THEN u2
                  ELSE DedupCap(sorted, i + 1, u2, max)
         ELSE DedupCap(sorted, i + 1, unique, max)

UniqueTracks(all, max) == DedupCap(SortByRated(all), 1, <<>>, max)

\* One entry of the returned 'tracks' list.  Title, artist and the date string
\* are display copies of the track the entry is built from; the entry keeps
\* that track and the 'user' looked up in track_users.
RavesTrackList(unique, tu) ==
    [i \in 1..Len(unique) |->
        [track |-> unique[i],
         user  |-> IF unique[i].ratingKey \in DOMAIN tu
                   THEN tu[unique[i].ratingKey] ELSE "Unknown"]]

\* The new tracks taken without the test against existing_keys.
NewTracksAll(unique, items) == unique

\* new_tracks = [t for t in unique_tracks if t.ratingKey not in existing_keys]
NewTracks(unique, items) ==
    SelectSeq(unique, LAMBDA t : t.ratingKey \notin KeysOf(items))

\* items_to_remove = current_items[max_songs:], kept from the front instead:
\* the oldest positions go.
ItemsToRemoveFront(current_items, max) ==
    SubSeq(current_items, 1, Len(current_items) - max)

\* items_to_remove = current_items[max_songs:]
ItemsToRemove(current_items, max) ==
    SubSeq(current_items, max + 1, Len(current_items))

\* ------------------------- membership merge (sync_jam_jar, sync_staff_picks)

HasKey(info, k) == \E i \in 1..Len(info) : info[i].key = k

IndexOfKey(info, k) == CHOOSE i \in 1..Len(info) : info[i].key = k

\* FoldItem without the "key not in track_info" test: every item is recorded.
FoldItemNoDedup(info, item, username) ==
    Append(info, [key      |-> item.ratingKey,
                  track    |-> item,
                  added_at |-> item.addedAt,
                  added_by |-> username])

\* FoldItem with the comparison turned round: the later addedAt wins.
FoldItemLatest(info, item, username) ==
    IF ~HasKey(info, item.ratingKey)
    THEN FoldItemNoDedup(info, item, username)
    ELSE LET i == IndexOfKey(info, item.ratingKey)
         IN  IF /\ item.addedAt # NoTime
                /\ (info[i].added_at = NoTime \/ item.addedAt > info[i].added_at)
             THEN [info EXCEPT ![i].added_at = item.addedAt,
                               ![i].added_by = username]
             ELSE info

\* FoldItem with <= for <: an item with the record's own timestamp takes the
\* record over.
FoldItemTieMoves(info, item, username) ==
    IF ~HasKey(info, item.ratingKey)
    THEN FoldItemNoDedup(info, item, username)
    ELSE LET i == IndexOfKey(info, item.ratingKey)
         IN  IF /\ item.addedAt # NoTime
                /\ (info[i].added_at = NoTime \/ item.addedAt <= info[i].added_at)
             THEN [info EXCEPT ![i].added_at = item.addedAt,
                               ![i].added_by = username]
             ELSE info

\* One iteration of "for item in items": track_info is a dict, modelled as
\* the sequence of its values in insertion order.
FoldItem(info, item, username) ==
    IF ~HasKey(info, item.ratingKey)
    THEN Append(info, [key      |-> item.ratingKey,
                       track    |-> item,
                       added_at |-> item.addedAt,
                       added_by |-> username])
    ELSE LET i == IndexOfKey(info, item.ratingKey)
         IN  IF /\ item.addedAt # NoTime
                /\ (info[i].added_at = NoTime \/ item.addedAt < info[i].added_at)
             THEN [info EXCEPT ![i].added_at = item.addedAt,
                               ![i].added_by = username]
             ELSE info

RECURSIVE FoldItems(_, _, _, _)
FoldItems(info, items, j, username) ==
    IF j > Len(items) THEN info
    ELSE FoldItems(FoldItem(info, items[j], username), items, j + 1, username)

\* sorted(track_info.values(), key=added_at or datetime.min, reverse=True):
\* NoTime is below every timestamp, as datetime.min is.
SortedTracks(info) ==
    LET p == SortDescStable([i \in 1..Len(info) |-> info[i].added_at])
    IN  [r \in 1..Len(info) |-> info[p[r]]]

TracksToSync(info) ==
    LET s == SortedTracks(info) IN [i \in 1..Len(s) |-> s[i].track]

MemberTrackList(info) ==
    LET s == SortedTracks(info)
    IN  [i \in 1..Len(s) |->
            [key |-> s[i].key, user |-> s[i].added_by, added_at |-> s[i].added_at]]

\* playlist.removeItems(items), one item: the first entry of the playlist with
\* the item's ratingKey goes.
RemoveOne(items, k) ==
    LET i == CHOOSE n \in 1..Len(items) :
                 /\ items[n].ratingKey = k
                 /\ \A m \in 1..(n - 1) : items[m].ratingKey # k
    IN  SubSeq(items, 1, i - 1) \o SubSeq(items, i + 1, Len(items))

\* playlist.removeItems(held), from the j-th held item on; a held item that is
\* no longer in the playlist is passed over.
RECURSIVE RemoveItems(_, _, _)
RemoveItems(items, held, j) ==
    IF j > Len(held) THEN items
    ELSE IF held[j].ratingKey \in KeysOf(items)
         THEN RemoveItems(RemoveOne(items, held[j].ratingKey), held, j + 1)
         ELSE RemoveItems(items, held, j + 1)

\* A removeItems that removes nothing.
AfterRemoveNothing(items, held) == items

\* The items of a playlist after playlist.removeItems(held).
AfterRemoveItems(items, held) == RemoveItems(items, held, 1)

\* A catalog call that puts back what the write had removed when it raises.
AfterRaiseRestored(items, held) == held

\* The items of a playlist after a call on it raised: the call has changed
\* nothing, and the except clause only logs; what an earlier call of the same
\* write removed (held) is not put back.
AfterRaise(items, held) == items

\* ------------------------------------------------------------------- state

VARIABLES
    plex_ok,          \* clients.plex is set: the plex property does not raise
    home,             \* user -> the 'home' attribute of its account.users() entry
    playlists,        \* user -> playlist title -> Playlist(items) or NoPlaylist:
                      \* the first playlist of the title, which the lookup finds
    dups,             \* user -> the item lists of the further playlists created
                      \* under the title the invocations are given
    rated,            \* user -> the 5-star search results of its music sections
    len_truth,        \* the truth value of a playlist handle is its length
                      \* (the handle class defines __len__), else every handle
                      \* is true; the library is not part of the repository
    policy,           \* the method invoked: "raves", "jam" or "staff"
    members,          \* its contributors / members / curators argument
    max_songs,        \* its max_songs argument (update_recent_raves only)
    frame,            \* invocation -> its position, locals and history
    calls,            \* the commands the caller issues
    run,              \* invocations started so far
    fails             \* catalog calls that raised so far

catalog == <<plex_ok, home, playlists, dups, rated, len_truth>>
args == <<policy, members, max_songs>>
vars == <<catalog, args, frame, calls, run, fails>>

\* The invocations the caller may have in flight: main.py runs each command
\* in a thread of its own (asyncio.to_thread) and does not wait for another.
Inv == {1, 2}

\* One invocation at a time: no command arrives while another is served.
\* What is said of one invocation is checked under these.
One == {1}

\* The fields of an invocation's frame.
\*   pc, idx            position, and position in the list the loop walks
\*   all_rated_tracks .. users_updated, current_items, new_tracks
\*                      the locals of the method
\*   result             what the invocation returned, or that it raised
\*   pre, pre_dups      the playlists as they were when it started
\*   prev               of the invocation that had this frame before, in the
\*                      membership policies: the keys the listed replicas
\*                      held at its start, and its rlog
\*   rlog               per replica read: "ok" or "fail"
\*   rcount             per replica read: the number of results (raves) or
\*                      items (membership) processed before the read ended
\*   wlog               per target written: "none" or the failure point
pc == frame[1].pc
idx == frame[1].idx
all_rated_tracks == frame[1].all_rated_tracks
track_users == frame[1].track_users
unique_tracks == frame[1].unique_tracks
track_info == frame[1].track_info
tracks_to_sync == frame[1].tracks_to_sync
track_list == frame[1].track_list
total_added == frame[1].total_added
home_users == frame[1].home_users
users_updated == frame[1].users_updated
current_items == frame[1].current_items
new_tracks == frame[1].new_tracks
result == frame[1].result
pre == frame[1].pre
pre_dups == frame[1].pre_dups
prev == frame[1].prev
rlog == frame[1].rlog
rcount == frame[1].rcount
wlog == frame[1].wlog

PlaylistNameOf(p) ==
    IF p = "raves" THEN RavesName ELSE IF p = "jam" THEN JamName ELSE StaffName

\* playlist_name: each method is called with its default title.
playlist_name == PlaylistNameOf(policy)

\* The keys held, in the catalog state pls, by the playlists the collection
\* step reads: those of the given title of the listed replicas in the
\* membership policies, none in update_recent_raves (it collects ratings).
HeldKeys(pls) ==
    IF policy = "raves" THEN {}
    ELSE UNION {KeysOf(pls[members[i]][playlist_name].items) :
                    i \in 1..Len(members)}

NoResult == [status |-> "none"]
Raised == [status |-> "raised"]

\* A catalog call may be made to raise while the failure budget lasts.
CanFail == plex_ok /\ fails < MaxFails

\* "if playlist:" on what the lookup left: None is false; a handle is true,
\* unless its truth value is its length and it has no items.
Truthy(pl) == pl.exists /\ (len_truth => pl.items # <<>>)

\* -------------------------------------------------------------- initial states

\* Sequences of at most one track, and sequences of at most two tracks in
\* ascending key order, drawn from a set of tracks.
SeqsUpTo1(T) == {<<>>} \cup {<<t>> : t \in T}
AscSeqsUpTo2(T) ==
    SeqsUpTo1(T)
    \cup {<<x[1], x[2]>> : x \in {y \in T \X T : y[1].ratingKey < y[2].ratingKey}}

\* A playlist of another title than the one the invocation is given.
OtherPlaylist == Playlist(<<Track(9, NoTime, NoTime)>>)

RatedKeys == {1, 2}
RatedTracks == {Track(k, NoTime, r) : k \in RatedKeys, r \in OptTimes}
RatedOptionsA ==
    {<<>>}
    \cup {<<Track(1, NoTime, r)>> : r \in OptTimes}
    \cup {<<Track(1, NoTime, r[1]), Track(2, NoTime, r[2])>> : r \in OptTimes \X Times}
RatedOptionsB == SeqsUpTo1({t \in RatedTracks : t.ratingKey = 1})
RavesPlaylistOptionsA ==
    {NoPlaylist, Playlist(<<Track(3, NoTime, NoTime)>>),
     Playlist(<<Track(3, NoTime, NoTime), Track(1, NoTime, NoTime)>>)}
RavesPlaylistOptionsB ==
    {NoPlaylist, Playlist(<<>>), Playlist(<<Track(1, NoTime, NoTime)>>)}
RavesContributorLists == {<<"A", "B">>}

JamKeys == {1, 2}
JamTracks == {Track(k, a, NoTime) : k \in JamKeys, a \in OptTimes}
JamPlaylistOptionsA == {NoPlaylist} \cup {Playlist(s) : s \in AscSeqsUpTo2(JamTracks)}
JamPlaylistOptionsB == {NoPlaylist} \cup {Playlist(s) : s \in SeqsUpTo1(JamTracks)}
JamPlaylistOptionsC ==
    {NoPlaylist, Playlist(<<>>), Playlist(<<Track(1, 1, NoTime)>>)}
JamMemberLists == {<<"A", "B", "C">>}

StaffCuratorLists == {<<"A", "B">>}
StaffPlaylistOptions == {NoPlaylist} \cup {Playlist(s) : s \in SeqsUpTo1(JamTracks)}

\* The admin is of the Home; of the account's other users, none, C, or all.
StaffHomeOptions ==
    {[u \in Users |-> u \in H] : H \in {{"A"}, {"A", "C"}, {"A", "B", "C", "D"}}}


\* The frame of an invocation that has not been dispatched.
IdleFrame(pls) ==
    [pc |-> "idle", idx |-> 0,
     all_rated_tracks |-> <<>>, track_users |-> <<>>, unique_tracks |-> <<>>,
     track_info |-> <<>>, tracks_to_sync |-> <<>>, track_list |-> <<>>,
     total_added |-> 0, home_users |-> <<>>, users_updated |-> 0,
     current_items |-> <<>>, new_tracks |-> <<>>,
     result |-> NoResult,
     pre |-> pls, pre_dups |-> [u \in Users |-> <<>>],
     prev |-> [held |-> {}, rlog |-> <<>>],
     rlog |-> <<>>, rcount |-> <<>>, wlog |-> <<>>]

\* No command has been dispatched and no call has raised.
InitInvocation ==
    /\ frame = [v \in One |-> IdleFrame(playlists)]
    /\ dups = [u \in Users |-> <<>>]
    /\ run = 0 /\ fails = 0

CatalogRaves ==
    /\ policy = "raves"
    /\ members \in RavesContributorLists
    /\ max_songs \in 0..MaxCap
    /\ plex_ok \in BOOLEAN
    /\ len_truth \in BOOLEAN
    /\ home = [u \in Users |-> TRUE]
    /\ \E ra \in RatedOptionsA, rb \in RatedOptionsB :
           rated = [u \in Users |-> IF u = "A" THEN ra ELSE IF u = "B" THEN rb ELSE <<>>]
    /\ \E pa \in RavesPlaylistOptionsA, pb \in RavesPlaylistOptionsB :
           playlists = [u \in Users |-> [n \in PlaylistNames |->
               IF n # RavesName THEN OtherPlaylist
               ELSE IF u = "A" THEN pa ELSE IF u = "B" THEN pb
               ELSE IF u = "D" THEN Playlist(<<Track(3, NoTime, NoTime)>>)
               ELSE NoPlaylist]]

CatalogJam ==
    /\ policy = "jam"
    /\ members \in JamMemberLists
    /\ max_songs = 0
    /\ plex_ok \in BOOLEAN
    /\ len_truth \in BOOLEAN
    /\ home = [u \in Users |-> TRUE]
    /\ rated = [u \in Users |-> <<>>]
    /\ \E pa \in JamPlaylistOptionsB, pb \in JamPlaylistOptionsA,
          pc0 \in JamPlaylistOptionsC :
           playlists = [u \in Users |-> [n \in PlaylistNames |->
               IF n # JamName THEN OtherPlaylist
               ELSE IF u = "A" THEN pa ELSE IF u = "B" THEN pb
               ELSE IF u = "C" THEN pc0 ELSE NoPlaylist]]

CatalogStaff ==
    /\ policy = "staff"
    /\ members \in StaffCuratorLists
    /\ max_songs = 0
    /\ plex_ok \in BOOLEAN
    /\ len_truth \in BOOLEAN
    /\ home \in StaffHomeOptions
    /\ rated = [u \in Users |-> <<>>]
    /\ \E pa \in StaffPlaylistOptions, pb \in StaffPlaylistOptions,
          pc0 \in JamPlaylistOptionsC :
           playlists = [u \in Users |-> [n \in PlaylistNames |->
               IF n # StaffName THEN OtherPlaylist
               ELSE IF u = "A" THEN pa ELSE IF u = "B" THEN pb
               ELSE IF u = "C" THEN pc0 ELSE NoPlaylist]]

\* One command is issued. An invocation looks a user's playlist up only
\* before it has written to that user, so the truth of a handle matters to it
\* only where a playlist of the title starts empty; elsewhere the two kinds
\* of handle behave alike and one is kept.
OneCommand ==
    /\ calls = 1
    /\ len_truth \/ \E u \in Users : playlists[u][playlist_name] = Playlist(<<>>)

InitRaves == CatalogRaves /\ InitInvocation /\ OneCommand

InitJam == CatalogJam /\ InitInvocation /\ OneCommand

InitStaff == CatalogStaff /\ InitInvocation /\ OneCommand

Init == InitRaves \/ InitJam \/ InitStaff

\* Commands are issued one after the other has been served.
InitRuns ==
    /\ CatalogRaves \/ CatalogJam \/ CatalogStaff
    /\ InitInvocation
    /\ calls = MaxRuns

\* ------------------------------------------------------------------ actions

\* A command handler of main.py dispatches the method (asyncio.to_thread): the
\* invocation takes the first frame that is free, its locals fresh.  An
\* invocation in flight in another frame does not hold it back.
Start(v) ==
    /\ frame[v].pc \in {"idle", "done"}
    /\ \A w \in DOMAIN frame : w < v => frame[w].pc \notin {"idle", "done"}
    /\ run < calls
    /\ run' = run + 1
    /\ frame' = [frame EXCEPT ![v] =
          [IdleFrame(playlists) EXCEPT
              !.pc = "collect", !.idx = 1,
              !.pre_dups = dups,
              !.prev = IF policy = "raves" THEN frame[v].prev
                       ELSE [held |-> HeldKeys(frame[v].pre),
                             rlog |-> frame[v].rlog]]]
    /\ UNCHANGED <<catalog, args, calls, fails>>

\* The handlers left out: what raises in the loop leaves the method.
ReadRaiseEscapes == TRUE
WriteRaiseEscapes == TRUE

\* "except Exception as e: logger.warning(...)" around one replica's read: the
\* exception is logged and the loop goes on; it does not leave the method.
ReadRaisePropagates == FALSE

\* "except Exception as e: logger.error(...)" around one target's write.
WriteRaisePropagates == FALSE

\* A read that creates the playlist it does not find.
CatalogAfterReadCreates(pls, u, name) ==
    IF pls[u][name].exists THEN pls
    ELSE [pls EXCEPT ![u][name] = Playlist(<<>>)]

\* The catalog after one replica was read: switchUser, library.sections(),
\* search(), playlists() and items() change nothing in it.
CatalogAfterRead(pls, u, name) == pls

\* The frame after the read of one replica ended: n results or items were
\* processed, and the read raised (how = "fail") or did not (how = "ok").
AfterRead(fr, how, n) ==
    LET logged == [fr EXCEPT !.rlog = Append(@, how), !.rcount = Append(@, n)]
    IN  IF how = "fail" /\ ReadRaisePropagates
        THEN [logged EXCEPT !.pc = "done", !.result = Raised]
        ELSE [logged EXCEPT !.idx = @ + 1]

\* update_recent_raves, step 1, one contributor.  track_users is set per
\* result while user_tracks reaches all_rated_tracks only after the last
\* music section: a call that raises after p results were processed (a later
\* section's search, p up to all the results of the sections before) leaves
\* their entries in track_users and drops user_tracks.
RavesCollect(v) ==
    /\ frame[v].pc = "collect" /\ policy = "raves" /\ frame[v].idx <= Len(members)
    /\ LET fr == frame[v]
           u == members[fr.idx]
           got == RatedWithTime(rated[u])
       IN  \/ /\ plex_ok
              /\ frame' = [frame EXCEPT ![v] = AfterRead(
                    [fr EXCEPT !.all_rated_tracks = @ \o got,
                               !.track_users = SetTrackUsers(@, got, u)],
                    "ok", Len(rated[u]))]
              /\ playlists' = CatalogAfterRead(playlists, u, playlist_name)
              /\ UNCHANGED fails
           \/ /\ ~plex_ok
              /\ frame' = [frame EXCEPT ![v] = AfterRead(fr, "fail", 0)]
              /\ UNCHANGED <<fails, playlists>>
           \/ /\ CanFail
              /\ \E p \in 0..Len(rated[u]) :
                    frame' = [frame EXCEPT ![v] = AfterRead(
                        [fr EXCEPT !.track_users = SetTrackUsers(@,
                                      RatedWithTime(SubSeq(rated[u], 1, p)), u)],
                        "fail", p)]
              /\ fails' = fails + 1
              /\ UNCHANGED playlists
    /\ UNCHANGED <<plex_ok, home, dups, rated, len_truth, args, calls, run>>

\* The early-return test without its effect: the method always goes on.
IsEmptyNever(c) == FALSE

\* "if not all_rated_tracks", "if not unique_tracks", "if not track_info":
\* the collection the early return tests is empty.
IsEmpty(c) == c = <<>>

\* update_recent_raves, step 2: the early return, the sort in place of
\* all_rated_tracks, dedup and cap, and the second early return.
RavesMerge(v) ==
    /\ frame[v].pc = "collect" /\ policy = "raves" /\ frame[v].idx > Len(members)
    /\ LET fr == frame[v]
           sorted == SortByRated(fr.all_rated_tracks)
           unique == DedupCap(sorted, 1, <<>>, max_songs)
           zero == [status |-> "returned", added |-> 0, total |-> 0,
                    tracks |-> <<>>]
       IN  frame' = [frame EXCEPT ![v] =
              IF IsEmpty(fr.all_rated_tracks)
              THEN [fr EXCEPT !.pc = "done", !.idx = 1, !.result = zero]
              ELSE IF IsEmpty(unique)
              THEN [fr EXCEPT !.pc = "done", !.idx = 1, !.result = zero,
                              !.all_rated_tracks = sorted]
              ELSE [fr EXCEPT !.pc = "write", !.idx = 1,
                              !.all_rated_tracks = sorted,
                              !.unique_tracks = unique,
                              !.track_list = RavesTrackList(unique, fr.track_users)]]
    /\ UNCHANGED <<catalog, args, calls, run, fails>>

\* A write loop that goes on to a user who is not a contributor.
RavesWriteTargetsAndMore(contributors) == Append(contributors, "C")

\* "for username in contributors" of step 3: the users written.
RavesWriteTargets(contributors) == contributors

\* One replica of a membership collection loop (sync_jam_jar and
\* sync_staff_picks hold the same loop).  The try block spans the lookup, the
\* items() call and the fold: a raise ends the read with the first p items of
\* the playlist folded (p = 0 when it comes before the fold; later, line 661 /
\* 777 reads item.addedAt without the hasattr guard of line 653 / 769).
MemberCollect(v) ==
    /\ frame[v].pc = "collect" /\ frame[v].idx <= Len(members)
    /\ LET fr == frame[v]
           u == members[fr.idx]
           pl == playlists[u][playlist_name]
           items == IF Truthy(pl) THEN pl.items ELSE <<>>
       IN  \/ /\ plex_ok
              /\ frame' = [frame EXCEPT ![v] = AfterRead(
                    [fr EXCEPT !.track_info = FoldItems(@, items, 1, u)],
                    "ok", Len(items))]
              /\ playlists' = CatalogAfterRead(playlists, u, playlist_name)
              /\ UNCHANGED fails
           \/ /\ ~plex_ok
              /\ frame' = [frame EXCEPT ![v] = AfterRead(fr, "fail", 0)]
              /\ UNCHANGED <<fails, playlists>>
           \/ /\ CanFail
              /\ \E p \in {0} \cup (1..(Len(items) - 1)) :
                    frame' = [frame EXCEPT ![v] = AfterRead(
                        [fr EXCEPT !.track_info =
                             FoldItems(@, SubSeq(items, 1, p), 1, u)],
                        "fail", p)]
              /\ fails' = fails + 1
              /\ UNCHANGED playlists
    /\ UNCHANGED <<plex_ok, home, dups, rated, len_truth, args, calls, run>>

\* sync_jam_jar, step 1, one member.
JamCollect(v) == policy = "jam" /\ MemberCollect(v)

\* sync_staff_picks, step 1, one curator.
StaffCollect(v) == policy = "staff" /\ MemberCollect(v)

\* sync_jam_jar, step 2: the empty return (its loop over the members only
\* reads, and catches what raises), else the sort.
JamMerge(v) ==
    /\ frame[v].pc = "collect" /\ policy = "jam" /\ frame[v].idx > Len(members)
    /\ LET fr == frame[v]
       IN  frame' = [frame EXCEPT ![v] =
              IF IsEmpty(fr.track_info)
              THEN [fr EXCEPT !.pc = "done", !.idx = 1,
                              !.result = [status |-> "returned", total |-> 0,
                                          tracks |-> <<>>]]
              ELSE [fr EXCEPT !.pc = "write", !.idx = 1,
                              !.tracks_to_sync = TracksToSync(fr.track_info),
                              !.track_list = MemberTrackList(fr.track_info)]]
    /\ UNCHANGED <<catalog, args, calls, run, fails>>

\* sync_staff_picks, step 2: the empty return, else the sort.
StaffMerge(v) ==
    /\ frame[v].pc = "collect" /\ policy = "staff" /\ frame[v].idx > Len(members)
    /\ LET fr == frame[v]
       IN  frame' = [frame EXCEPT ![v] =
              IF IsEmpty(fr.track_info)
              THEN [fr EXCEPT !.pc = "done", !.idx = 1,
                              !.result = [status |-> "returned", total |-> 0,
                                          tracks |-> <<>>, users_updated |-> 0]]
              ELSE [fr EXCEPT !.pc = "enumerate", !.idx = 1,
                              !.tracks_to_sync = TracksToSync(fr.track_info),
                              !.track_list = MemberTrackList(fr.track_info)]]
    /\ UNCHANGED <<catalog, args, calls, run, fails>>

\* HomeUsers with the last entry of the filtered list lost.
HomeUsersButLast(all_users, h) ==
    LET hs == SelectSeq(all_users, LAMBDA u : h[u])
    IN  SubSeq(hs, 1, Len(hs) - 1)

\* The account's users taken without the test of the home attribute.
HomeUsersAll(all_users, h) == all_users

\* home_users = [u for u in all_users if getattr(u, 'home', False)]
HomeUsers(all_users, h) == SelectSeq(all_users, LAMBDA u : h[u])

\* A handler around the enumeration: the raise is swallowed and the write
\* loop goes on with no Home user.
EnumerateRaiseCaught == FALSE

\* account = self.plex.myPlexAccount(); all_users = account.users(): no try
\* block encloses the two calls, so what they raise leaves the method.
EnumerateRaisePropagates == TRUE

\* sync_staff_picks, step 3: myPlexAccount() and users() are outside every
\* try block, so a raise there leaves the method.  The admin is written
\* next: position 0 of the write loop.
StaffEnumerate(v) ==
    /\ frame[v].pc = "enumerate" /\ policy = "staff"
    /\ LET fr == frame[v]
       IN  \/ /\ frame' = [frame EXCEPT ![v] =
                    [fr EXCEPT !.home_users = HomeUsers(AccountUsers, home),
                               !.pc = "admin", !.idx = 0]]
              /\ UNCHANGED fails
           \/ /\ CanFail
              /\ fails' = fails + 1
              /\ frame' = [frame EXCEPT ![v] =
                    IF EnumerateRaisePropagates
                    THEN [fr EXCEPT !.pc = "done", !.result = Raised]
                    ELSE [fr EXCEPT !.pc = "admin", !.idx = 0,
                                    !.home_users = <<>>]]
    /\ UNCHANGED <<catalog, args, calls, run>>

\* ------------------------------------------------- the write loops, call by call

\* The users the write loop of the invocation walks; in sync_staff_picks the
\* admin is written before the loop, at position 0.
WriteTargets(fr) ==
    IF policy = "raves" THEN RavesWriteTargets(members)
    ELSE IF policy = "jam" THEN members
    ELSE fr.home_users

\* The user whose playlist the invocation is writing.
Target(fr) ==
    IF policy = "staff" /\ fr.idx = 0 THEN Admin ELSE WriteTargets(fr)[fr.idx]

\* The sequence the invocation writes.
MergedOf(fr) == IF policy = "raves" THEN fr.unique_tracks ELSE fr.tracks_to_sync

\* The return statement after the write loop.
ResultOf(fr) ==
    IF policy = "raves"
    THEN [status |-> "returned", added |-> fr.total_added,
          total |-> Len(fr.unique_tracks), tracks |-> fr.track_list]
    ELSE IF policy = "jam"
    THEN [status |-> "returned", total |-> Len(fr.tracks_to_sync),
          tracks |-> fr.track_list]
    ELSE [status |-> "returned", total |-> Len(fr.tracks_to_sync),
          tracks |-> fr.track_list, users_updated |-> fr.users_updated]

\* The count raised for every target attempted.
CountAttempted(n, f) == n + 1

\* "users_updated += 1" is the last statement of the try block: it is reached
\* only when no call of the target's write raised.  (sync_jam_jar keeps no
\* such count; users_updated is returned by sync_staff_picks only.)
CountUpdated(n, f) == n + (IF f = "none" THEN 1 ELSE 0)

\* The frame after the write to the current target ended, by completion
\* (f = "none") or by an exception caught at failure point f: the loop goes
\* on to the next target, and the method returns after the last.
EndTarget(fr, f) ==
    LET w == [fr EXCEPT !.wlog = Append(@, f),
                        !.users_updated = CountUpdated(@, f),
                        !.idx = @ + 1]
    IN  IF f # "none" /\ WriteRaisePropagates
        THEN [w EXCEPT !.pc = "done", !.result = Raised]
        ELSE IF fr.idx = Len(WriteTargets(fr))
        THEN [w EXCEPT !.pc = "done", !.result = ResultOf(w)]
        ELSE [w EXCEPT !.pc = "write"]

\* A held item is no longer in the playlist: another invocation has removed
\* it since items() was called.
Absent(held, items) == ~(KeysOf(held) \subseteq KeysOf(items))

\* switchUser (self.plex itself for the admin), the lookup
\* "for pl in playlists(): if pl.title == playlist_name" and the test
\* "if playlist:" of one target.
Lookup(v) ==
    /\ frame[v].pc \in {"write", "admin"}
    /\ LET fr == frame[v]
           pl == playlists[Target(fr)][playlist_name]
       IN  \/ /\ frame' = [frame EXCEPT ![v] =
                    [fr EXCEPT !.pc = IF Truthy(pl) THEN "items" ELSE "create"]]
              /\ UNCHANGED fails
           \/ /\ CanFail
              /\ frame' = [frame EXCEPT ![v] = EndTarget(fr, "switch")]
              /\ fails' = fails + 1
    /\ UNCHANGED <<catalog, args, calls, run>>

\* createPlaylist with no effect.
CreatedNothing(pl, items) == pl

\* The first playlist of the title after createPlaylist(playlist_name, items):
\* the one created, unless the user has one of the title already.
Created(pl, items) == IF pl.exists THEN pl ELSE Playlist(items)

\* The further playlists of the title after createPlaylist: the catalog does
\* not refuse a second playlist of a title.
CreatedDups(pl, d, items) == IF pl.exists THEN Append(d, items) ELSE d

\* The else branch: createPlaylist(playlist_name, items=...) with the merged
\* sequence; update_recent_raves then raises total_added.
Create(v) ==
    /\ frame[v].pc = "create"
    /\ LET fr == frame[v]
           u == Target(fr)
           pl == playlists[u][playlist_name]
           tracks == MergedOf(fr)
       IN  \/ /\ playlists' = [playlists EXCEPT ![u][playlist_name] =
                                   Created(pl, tracks)]
              /\ dups' = [dups EXCEPT ![u] = CreatedDups(pl, @, tracks)]
              /\ frame' = [frame EXCEPT ![v] = EndTarget(
                    [fr EXCEPT !.total_added =
                         @ + (IF policy = "raves" THEN Len(tracks) ELSE 0)],
                    "none")]
              /\ UNCHANGED fails
           \/ /\ CanFail
              /\ frame' = [frame EXCEPT ![v] = EndTarget(fr, "add")]
              /\ fails' = fails + 1
              /\ UNCHANGED <<playlists, dups>>
    /\ UNCHANGED <<plex_ok, home, rated, len_truth, args, calls, run>>

\* update_recent_raves: existing_keys from playlist.items() and new_tracks;
\* with no new track the write to this contributor ends.
RavesItems(v) ==
    /\ frame[v].pc = "items" /\ policy = "raves"
    /\ LET fr == frame[v]
           pl == playlists[Target(fr)][playlist_name]
           new == NewTracks(fr.unique_tracks, pl.items)
       IN  \/ /\ frame' = [frame EXCEPT ![v] =
                    IF new = <<>>
                    THEN EndTarget([fr EXCEPT !.new_tracks = new], "none")
                    ELSE [fr EXCEPT !.new_tracks = new, !.pc = "add"]]
              /\ UNCHANGED fails
           \/ /\ CanFail
              /\ frame' = [frame EXCEPT ![v] = EndTarget(fr, "switch")]
              /\ fails' = fails + 1
    /\ UNCHANGED <<catalog, args, calls, run>>

\* update_recent_raves: playlist.addItems(new_tracks) and
\* total_added += len(new_tracks).
RavesAdd(v) ==
    /\ frame[v].pc = "add" /\ policy = "raves"
    /\ LET fr == frame[v]
           u == Target(fr)
       IN  \/ /\ playlists' = [playlists EXCEPT ![u][playlist_name] =
                                   Playlist(@.items \o fr.new_tracks)]
              /\ frame' = [frame EXCEPT ![v] =
                    [fr EXCEPT !.total_added = @ + Len(fr.new_tracks),
                               !.pc = "reread"]]
              /\ UNCHANGED fails
           \/ /\ CanFail
              /\ frame' = [frame EXCEPT ![v] = EndTarget(fr, "add")]
              /\ fails' = fails + 1
              /\ UNCHANGED playlists
    /\ UNCHANGED <<plex_ok, home, dups, rated, len_truth, args, calls, run>>

\* update_recent_raves: current_items = playlist.items() after the append and
\* the test len(current_items) > max_songs.
RavesReread(v) ==
    /\ frame[v].pc = "reread" /\ policy = "raves"
    /\ LET fr == frame[v]
           items == playlists[Target(fr)][playlist_name].items
       IN  \/ /\ frame' = [frame EXCEPT ![v] =
                    IF Len(items) > max_songs
                    THEN [fr EXCEPT !.current_items = items, !.pc = "trim"]
                    ELSE EndTarget([fr EXCEPT !.current_items = items], "none")]
              /\ UNCHANGED fails
           \/ /\ CanFail
              /\ frame' = [frame EXCEPT ![v] = EndTarget(fr, "trim")]
              /\ fails' = fails + 1
    /\ UNCHANGED <<catalog, args, calls, run>>

\* update_recent_raves: playlist.removeItems(current_items[max_songs:]).  An
\* item another invocation has removed since the reread is passed over by the
\* catalog, or the call raises.
RavesTrim(v) ==
    /\ frame[v].pc = "trim" /\ policy = "raves"
    /\ LET fr == frame[v]
           u == Target(fr)
           items == playlists[u][playlist_name].items
           held == ItemsToRemove(fr.current_items, max_songs)
       IN  \/ /\ playlists' = [playlists EXCEPT ![u][playlist_name] =
                                   Playlist(AfterRemoveItems(items, held))]
              /\ frame' = [frame EXCEPT ![v] = EndTarget(fr, "none")]
              /\ UNCHANGED fails
           \/ /\ CanFail \/ Absent(held, items)
              /\ frame' = [frame EXCEPT ![v] = EndTarget(fr, "trim")]
              /\ fails' = IF Absent(held, items) THEN fails ELSE fails + 1
              /\ UNCHANGED playlists
    /\ UNCHANGED <<plex_ok, home, dups, rated, len_truth, args, calls, run>>

\* Full replace: current_items = playlist.items() and "if current_items:".
ReplaceItems(v) ==
    /\ frame[v].pc = "items" /\ policy # "raves"
    /\ LET fr == frame[v]
           items == playlists[Target(fr)][playlist_name].items
       IN  \/ /\ frame' = [frame EXCEPT ![v] =
                    [fr EXCEPT !.current_items = items,
                               !.pc = IF items # <<>> THEN "remove" ELSE "add"]]
              /\ UNCHANGED fails
           \/ /\ CanFail
              /\ frame' = [frame EXCEPT ![v] = EndTarget(fr, "switch")]
              /\ fails' = fails + 1
    /\ UNCHANGED <<catalog, args, calls, run>>

\* Full replace: playlist.removeItems(current_items).  An item another
\* invocation has removed since items() was called is passed over by the
\* catalog, or the call raises.
ReplaceRemove(v) ==
    /\ frame[v].pc = "remove" /\ policy # "raves"
    /\ LET fr == frame[v]
           u == Target(fr)
           items == playlists[u][playlist_name].items
       IN  \/ /\ playlists' = [playlists EXCEPT ![u][playlist_name] =
                       Playlist(AfterRemoveItems(items, fr.current_items))]
              /\ frame' = [frame EXCEPT ![v] = [fr EXCEPT !.pc = "add"]]
              /\ UNCHANGED fails
           \/ /\ CanFail \/ Absent(fr.current_items, items)
              /\ frame' = [frame EXCEPT ![v] = EndTarget(fr, "remove")]
              /\ fails' = IF Absent(fr.current_items, items) THEN fails
                          ELSE fails + 1
              /\ UNCHANGED playlists
    /\ UNCHANGED <<plex_ok, home, dups, rated, len_truth, args, calls, run>>

\* Full replace: playlist.addItems(tracks_to_sync).
ReplaceAdd(v) ==
    /\ frame[v].pc = "add" /\ policy # "raves"
    /\ LET fr == frame[v]
           u == Target(fr)
           items == playlists[u][playlist_name].items
       IN  \/ /\ playlists' = [playlists EXCEPT ![u][playlist_name] =
                                   Playlist(items \o fr.tracks_to_sync)]
              /\ frame' = [frame EXCEPT ![v] = EndTarget(fr, "none")]
              /\ UNCHANGED fails
           \/ /\ CanFail
              /\ playlists' = [playlists EXCEPT ![u][playlist_name] =
                                   Playlist(AfterRaise(items, fr.current_items))]
              /\ frame' = [frame EXCEPT ![v] = EndTarget(fr, "add")]
              /\ fails' = fails + 1
    /\ UNCHANGED <<plex_ok, home, dups, rated, len_truth, args, calls, run>>

\* ----------------------------------------------------------- specifications

\* The steps of update_recent_raves, of sync_jam_jar and of sync_staff_picks
\* for the invocation in frame v.
RavesStep(v) ==
    \/ RavesCollect(v) \/ RavesMerge(v) \/ Lookup(v) \/ Create(v)
    \/ RavesItems(v) \/ RavesAdd(v) \/ RavesReread(v) \/ RavesTrim(v)

JamStep(v) ==
    \/ JamCollect(v) \/ JamMerge(v) \/ Lookup(v) \/ Create(v)
    \/ ReplaceItems(v) \/ ReplaceRemove(v) \/ ReplaceAdd(v)

StaffStep(v) ==
    \/ StaffCollect(v) \/ StaffMerge(v) \/ StaffEnumerate(v) \/ Lookup(v)
    \/ Create(v) \/ ReplaceItems(v) \/ ReplaceRemove(v) \/ ReplaceAdd(v)

\* One invocation at a time.
NextRaves == \E v \in One : Start(v) \/ RavesStep(v)

NextJam == \E v \in One : Start(v) \/ JamStep(v)

NextStaff == \E v \in One : Start(v) \/ StaffStep(v)

NextMembers ==
    \E v \in One :
        \/ Start(v)
        \/ JamCollect(v) \/ JamMerge(v)
        \/ StaffCollect(v) \/ StaffMerge(v) \/ StaffEnumerate(v)
        \/ Lookup(v) \/ Create(v)
        \/ ReplaceItems(v) \/ ReplaceRemove(v) \/ ReplaceAdd(v)

Next ==
    \E v \in One :
        \/ Start(v)
        \/ RavesCollect(v) \/ RavesMerge(v)
        \/ JamCollect(v) \/ JamMerge(v)
        \/ StaffCollect(v) \/ StaffMerge(v) \/ StaffEnumerate(v)
        \/ Lookup(v) \/ Create(v)
        \/ RavesItems(v) \/ RavesAdd(v) \/ RavesReread(v) \/ RavesTrim(v)
        \/ ReplaceItems(v) \/ ReplaceRemove(v) \/ ReplaceAdd(v)

\* The two methods that merge by playlist membership.
InitMembers == InitJam \/ InitStaff

SpecMembers == InitMembers /\ [][NextMembers]_vars

SpecRaves == InitRaves /\ [][NextRaves]_vars

SpecJam == InitJam /\ [][NextJam]_vars

SpecStaff == InitStaff /\ [][NextStaff]_vars

Spec == Init /\ [][Next]_vars

SpecRuns == InitRuns /\ [][Next]_vars

\* Commands arriving while another is served: the two methods main.py calls,
\* with no injected failure.
ConcPlaylistOptionsB == {NoPlaylist, Playlist(<<Track(2, NoTime, NoTime)>>)}

InitConcJam ==
    /\ policy = "jam"
    /\ members = <<"A", "B">>
    /\ max_songs = 0
    /\ plex_ok = TRUE
    /\ len_truth \in BOOLEAN
    /\ home = [u \in Users |-> TRUE]
    /\ rated = [u \in Users |-> <<>>]
    /\ \E pa \in JamPlaylistOptionsB, pb \in ConcPlaylistOptionsB :
           playlists = [u \in Users |-> [n \in PlaylistNames |->
               IF n # JamName THEN OtherPlaylist
               ELSE IF u = "A" THEN pa ELSE IF u = "B" THEN pb ELSE NoPlaylist]]
    /\ frame = [v \in Inv |-> IdleFrame(playlists)]
    /\ dups = [u \in Users |-> <<>>]
    /\ calls = MaxRuns /\ run = 0 /\ fails = MaxFails

InitConcRaves ==
    /\ policy = "raves"
    /\ members = <<"A", "B">>
    /\ max_songs \in 1..MaxCap
    /\ plex_ok = TRUE
    /\ len_truth \in BOOLEAN
    /\ home = [u \in Users |-> TRUE]
    /\ rated = [u \in Users |->
                   IF u = "A" THEN <<Track(1, NoTime, 1)>> ELSE <<>>]
    /\ \E pa \in RavesPlaylistOptionsA :
           playlists = [u \in Users |-> [n \in PlaylistNames |->
               IF n # RavesName THEN OtherPlaylist
               ELSE IF u = "A" THEN pa ELSE NoPlaylist]]
    /\ frame = [v \in Inv |-> IdleFrame(playlists)]
    /\ dups = [u \in Users |-> <<>>]
    /\ calls = MaxRuns /\ run = 0 /\ fails = MaxFails

InitConc == InitConcJam \/ InitConcRaves

NextConc ==
    \E v \in Inv :
        \/ Start(v)
        \/ RavesCollect(v) \/ RavesMerge(v)
        \/ JamCollect(v) \/ JamMerge(v)
        \/ Lookup(v) \/ Create(v)
        \/ RavesItems(v) \/ RavesAdd(v) \/ RavesReread(v) \/ RavesTrim(v)
        \/ ReplaceItems(v) \/ ReplaceRemove(v) \/ ReplaceAdd(v)

SpecConc == InitConc /\ [][NextConc]_vars

\* ------------------------------------------------- vocabulary of the claims

\* The list the write loop walks.
Targets == IF policy = "staff" THEN <<Admin>> \o home_users ELSE members

\* The merged sequence of the invocation.
Merged == IF policy = "raves" THEN unique_tracks ELSE tracks_to_sync

\* The ratingKeys of the track list, in its order.
TrackListKeys(tl) ==
    [i \in 1..Len(tl) |-> IF policy = "raves" THEN tl[i].track.ratingKey ELSE tl[i].key]

MergedKeys == [i \in 1..Len(Merged) |-> Merged[i].ratingKey]

Occurrences(keys, k) == Cardinality({i \in 1..Len(keys) : keys[i] = k})

\* The positions of an invocation that is in its write loop: before the
\* lookup of a target ("write", "admin" for the admin) or between two catalog
\* calls of the write to it.
WritePcs == {"write", "admin", "items", "create", "add", "reread", "trim", "remove"}

\* The positions between two catalog calls of the write to one target.
MidWritePcs == WritePcs \ {"write", "admin"}

\* The merge has been computed and was not empty.
MergeDone ==
    \/ pc \in WritePcs \cup {"enumerate"}
    \/ pc = "done" /\ result.status = "returned" /\ result.total > 0

\* The collection loop is over.
CollectDone == pc \in WritePcs \cup {"enumerate", "done"}

\* The replicas, by position in the list, whose read succeeded.
OkReads == {i \in 1..Len(rlog) : rlog[i] = "ok"}

\* The items a membership read of the replica at position i folded, in their
\* order: collection comes before every write of the invocation, so it saw
\* the playlist as it was at the start; a read that raised folded the items
\* before the raise.
ItemsSeen(i) == SubSeq(pre[members[i]][playlist_name].items, 1, rcount[i])

ItemsRead(i) == Range(ItemsSeen(i))

\* The replicas, by position in the list, whose read has ended.
Reads == 1..Len(rlog)

\* What a rating read of contributors 1..i collected.
RECURSIVE RatedRead(_)
RatedRead(i) ==
    IF i = 0 THEN <<>>
    ELSE RatedRead(i - 1) \o
         (IF rlog[i] = "ok" THEN RatedWithTime(rated[members[i]]) ELSE <<>>)

CollectedKeys ==
    IF policy = "raves" THEN KeysOf(all_rated_tracks)
    ELSE UNION {{x.ratingKey : x \in ItemsRead(i)} : i \in Reads}

\* A key that was collected from two replicas.
CollectedTwice(k) ==
    IF policy = "raves"
    THEN Cardinality({i \in 1..Len(all_rated_tracks) :
                          all_rated_tracks[i].ratingKey = k}) >= 2
    ELSE \E i, j \in Reads :
            /\ i # j
            /\ k \in {x.ratingKey : x \in ItemsRead(i)}
            /\ k \in {x.ratingKey : x \in ItemsRead(j)}

\* The item sequences of the playlists of the title that user u holds, the one
\* the lookup finds first.
TitleLists(u) ==
    (IF playlists[u][playlist_name].exists
     THEN <<playlists[u][playlist_name].items>> ELSE <<>>) \o dups[u]

\* User u holds a playlist of the title whose item sequence is seq.
Holds(u, seq) == \E n \in 1..Len(TitleLists(u)) : TitleLists(u)[n] = seq

\* The catalog is as it was when the invocation started.
CatalogAsBefore == playlists = pre /\ dups = pre_dups

AllReadsOk == Len(rlog) = Len(members) /\ \A i \in 1..Len(rlog) : rlog[i] = "ok"
AllWritesOk == Len(wlog) = Len(Targets) /\ \A i \in 1..Len(wlog) : wlog[i] = "none"

\* ------------------------------------------------------------------ claims

\* C1 (as stated): when update_recent_raves has run twice in a row with no
\* failure and unchanged ratings, the second run returns added = 0.
C1_SecondRunAddsNothing ==
    (policy = "raves" /\ pc = "done" /\ run = 2 /\ fails = 0 /\ plex_ok)
        => result.added = 0

\* C2 (as stated): every key that was collected has exactly one entry in the
\* merged sequence and exactly one in the track list, in all three policies.
C2_ExactlyOneEntry ==
    MergeDone =>
        \A k \in CollectedKeys :
            /\ Occurrences(MergedKeys, k) = 1
            /\ Occurrences(TrackListKeys(track_list), k) = 1

\* C2 (amended): no key has more than one entry in the merged sequence or in
\* the track list, the two hold the same keys in the same order, and a
\* collected key has no entry only in update_recent_raves, and there only when
\* the merged sequence was cut at max_songs entries.
C2_Dedup ==
    MergeDone =>
        LET merged    == MergedKeys
            collected == CollectedKeys
        IN  /\ TrackListKeys(track_list) = merged
            /\ (pc = "done" => TrackListKeys(result.tracks) = merged)
            /\ \A k \in collected :
                  /\ Occurrences(merged, k) <= 1
                  /\ Occurrences(merged, k) = 0 =>
                        (policy = "raves" /\ Len(unique_tracks) >= max_songs)
            /\ \A i \in 1..Len(merged) : merged[i] \in collected

\* A merge in which some key was collected from two replicas.
C2_Witness ==
    /\ MergeDone
    /\ \E k \in CollectedKeys : CollectedTwice(k) /\ Occurrences(MergedKeys, k) = 1

\* C3 (as stated): when update_recent_raves has returned, no contributor's
\* playlist holds more than max_songs items.
C3_CapInvariant ==
    (policy = "raves" /\ pc = "done" /\ result.status = "returned") =>
        \A i \in 1..Len(members) :
            Len(playlists[members[i]][playlist_name].items) <= max_songs

\* C4: in the membership merge, when replica A holds X with timestamp t1 and
\* replica B holds X with a later timestamp, and no other replica holds X as
\* early as t1 (of each replica, the items the fold has seen), the merged
\* record of X has timestamp t1 and is attributed to A, whichever of A and B
\* was folded first.
C4_EarliestWins ==
    (policy \in {"jam", "staff"} /\ CollectDone) =>
        \A i, j \in Reads : \A x \in ItemsRead(i), y \in ItemsRead(j) :
            ( /\ i # j
              /\ x.ratingKey = y.ratingKey
              /\ x.addedAt # NoTime
              /\ y.addedAt > x.addedAt
              /\ \A h \in Reads \ {i} : \A z \in ItemsRead(h) :
                    z.ratingKey = x.ratingKey =>
                        (z.addedAt = NoTime \/ z.addedAt > x.addedAt) )
            => /\ HasKey(track_info, x.ratingKey)
               /\ LET r == track_info[IndexOfKey(track_info, x.ratingKey)]
                  IN  r.added_at = x.addedAt /\ r.added_by = members[i]

\* The later holder was folded before the earlier one, and the record is the
\* earlier one's.
C4_Witness ==
    /\ policy = "jam" /\ CollectDone
    /\ \E i, j \in OkReads : \E x \in ItemsRead(i), y \in ItemsRead(j) :
          /\ j < i
          /\ x.ratingKey = y.ratingKey
          /\ x.addedAt # NoTime
          /\ y.addedAt > x.addedAt
          /\ track_info[IndexOfKey(track_info, x.ratingKey)].added_by = members[i]
          /\ track_info[IndexOfKey(track_info, x.ratingKey)].added_at = x.addedAt

\* The target at position j of the write loop holds what a successful write
\* step leaves: a playlist of the title that is the merged sequence (full
\* replace, or creation), or, in update_recent_raves, a playlist that holds
\* every merged key or is filled up to the cap.
Written(j) ==
    LET pl == playlists[Targets[j]][playlist_name]
    IN  \/ Holds(Targets[j], Merged)
        \/ /\ policy = "raves"
           /\ pl.exists
           /\ (KeysOf(unique_tracks) \subseteq KeysOf(pl.items)
               \/ Len(pl.items) >= max_songs)

\* C5: in every policy, once a write to a target has raised, the invocation
\* does not raise, every target of the list is still attempted, every later
\* target whose own write does not raise holds its write, and the invocation
\* returns a result.
C5_WriteFailureIsolated ==
    (\E i \in 1..Len(wlog) : wlog[i] # "none") =>
        /\ result.status # "raised"
        /\ pc \in WritePcs \cup {"done"}
        /\ pc \in WritePcs =>
              idx = Len(wlog) + (IF policy = "staff" THEN 0 ELSE 1)
        /\ pc = "done" =>
              /\ result.status = "returned"
              /\ Len(wlog) = Len(Targets)
              /\ \A i, j \in 1..Len(wlog) :
                    (i < j /\ wlog[i] # "none" /\ wlog[j] = "none") => Written(j)

\* A finished invocation in which a target's write raised and a later target
\* was written.
C5_Witness ==
    /\ pc = "done" /\ result.status = "returned"
    /\ \E i, j \in 1..Len(wlog) :
          /\ i < j /\ wlog[i] # "none" /\ wlog[j] = "none"
          /\ Written(j)
          /\ playlists[Targets[j]][playlist_name] # pre[Targets[j]][playlist_name]

\* The latest lastRatedAt collected for key k.
LatestRated(k) ==
    CHOOSE t \in {all_rated_tracks[i].lastRatedAt : i \in 1..Len(all_rated_tracks)} :
        /\ \E i \in 1..Len(all_rated_tracks) :
              all_rated_tracks[i].ratingKey = k /\ all_rated_tracks[i].lastRatedAt = t
        /\ \A i \in 1..Len(all_rated_tracks) :
              all_rated_tracks[i].ratingKey = k => all_rated_tracks[i].lastRatedAt <= t

\* C6 (as stated): every entry of the track list of update_recent_raves
\* carries the latest rating timestamp collected for its key and names as
\* 'user' a contributor who holds the rating with that timestamp.
C6_LatestRaterAttributed ==
    (policy = "raves" /\ MergeDone) =>
        \A n \in 1..Len(track_list) :
            LET k == track_list[n].track.ratingKey
            IN  /\ track_list[n].track.lastRatedAt = LatestRated(k)
                /\ \E i \in OkReads :
                      /\ members[i] = track_list[n].user
                      /\ \E m \in 1..Len(rated[members[i]]) :
                            /\ rated[members[i]][m].ratingKey = k
                            /\ rated[members[i]][m].lastRatedAt = LatestRated(k)

\* The broadcast scenario: curators A and B held {T1} and {T2}, and the
\* invocation ran without a failure.
BroadcastScenario ==
    /\ policy = "staff" /\ members = <<"A", "B">>
    /\ pc = "done" /\ result.status = "returned"
    /\ AllReadsOk /\ AllWritesOk
    /\ KeysOf(pre["A"][StaffName].items) = {1}
    /\ KeysOf(pre["B"][StaffName].items) = {2}

BroadcastOutcome ==
    /\ KeysOf(tracks_to_sync) = {1, 2} /\ Len(tracks_to_sync) = 2
    /\ Holds("C", tracks_to_sync)
    /\ Holds("D", tracks_to_sync)
    /\ result.users_updated = 4

\* C7 (as stated): in the broadcast scenario with membership A (admin), B, C,
\* D the playlists of C and D equal the merged {T1, T2} and users_updated = 4.
C7_BroadcastAllMembers == BroadcastScenario => BroadcastOutcome

\* C7 (amended): the same, when B, C and D are Home users of the account; the
\* write loop walks the admin and the Home users only.
C7_BroadcastHomeMembers ==
    (BroadcastScenario /\ home["B"] /\ home["C"] /\ home["D"]) => BroadcastOutcome

\* The broadcast scenario has run to its end with all four members in the
\* Home and every write succeeding.
C7_Witness ==
    /\ BroadcastScenario /\ home["B"] /\ home["C"] /\ home["D"]
    /\ BroadcastOutcome
    /\ ~pre["C"][StaffName].exists /\ ~pre["D"][StaffName].exists

\* The member at position j holds the complete outcome of a write: its
\* playlist of the title is exactly the merged sequence, or, where the test
\* of the handle took the playlist it held for none, that playlist is as it
\* was and a new one of the title is exactly the merged sequence.
Replaced(j) ==
    LET u == members[j]
    IN  \/ /\ playlists[u][playlist_name] = Playlist(tracks_to_sync)
           /\ dups[u] = pre_dups[u]
        \/ /\ pre[u][playlist_name] = Playlist(<<>>) /\ len_truth
           /\ playlists[u][playlist_name] = pre[u][playlist_name]
           /\ dups[u] = Append(pre_dups[u], tracks_to_sync)

\* The member at position j holds what it held when the invocation started.
Untouched(j) ==
    /\ playlists[members[j]][playlist_name] = pre[members[j]][playlist_name]
    /\ dups[members[j]] = pre_dups[members[j]]

\* C8: after a failure-free pass of sync_jam_jar with a non-empty merge every
\* member has a playlist of the title that is exactly the merged sequence,
\* whether the member had the playlist before or not: the playlist it had, or
\* the one created for it.
C8_FullReplaceConverges ==
    (policy = "jam" /\ pc = "done" /\ result.status = "returned"
        /\ result.total > 0 /\ AllReadsOk /\ AllWritesOk) =>
        /\ result.total = Len(tracks_to_sync)
        /\ KeysOf(tracks_to_sync) = CollectedKeys
        /\ \A i \in 1..Len(members) : Replaced(i)

\* A converged pass in which one member had no playlist and another had one
\* that differed from the merge.
C8_Witness ==
    /\ policy = "jam" /\ pc = "done" /\ result.status = "returned"
    /\ result.total > 0 /\ AllReadsOk /\ AllWritesOk
    /\ \E i, j \in 1..Len(members) :
          /\ ~pre[members[i]][playlist_name].exists
          /\ pre[members[j]][playlist_name].exists
          /\ pre[members[j]][playlist_name].items # <<>>
          /\ pre[members[j]][playlist_name] # Playlist(tracks_to_sync)
          /\ playlists[members[i]][playlist_name] = Playlist(tracks_to_sync)
          /\ playlists[members[j]][playlist_name] = Playlist(tracks_to_sync)

\* C9: in every policy a replica whose read raises is skipped: the collection
\* loop goes on to the next replica without raising, every listed replica is
\* read or skipped, and what is merged holds the items of every replica whose
\* read succeeded.
C9_ReadFailureIsolated ==
    /\ pc = "collect" => (Len(rlog) = idx - 1 /\ result.status = "none")
    /\ CollectDone =>
          LET collected == CollectedKeys
              read      == RatedRead(Len(rlog))
          IN  /\ Len(rlog) = Len(members)
              /\ policy = "raves" =>
                    \/ all_rated_tracks = read
                    \/ all_rated_tracks = SortByRated(read)
              /\ policy # "raves" =>
                    {track_info[i].key : i \in 1..Len(track_info)} = collected
              /\ (MergeDone /\ policy # "raves") =>
                    KeysOf(tracks_to_sync) = collected
              /\ (MergeDone /\ policy = "raves") =>
                    /\ KeysOf(unique_tracks) \subseteq collected
                    /\ (Len(unique_tracks) < max_songs =>
                            KeysOf(unique_tracks) = collected)

\* A replica's read raised and a replica listed after it was read and is in
\* the merge.
C9_Witness ==
    /\ MergeDone
    /\ \E i, j \in 1..Len(rlog) :
          /\ i < j /\ rlog[i] = "fail" /\ rlog[j] = "ok"
          /\ IF policy = "raves"
             THEN \E m \in 1..Len(rated[members[j]]) :
                     /\ rated[members[j]][m].lastRatedAt # NoTime
                     /\ rated[members[j]][m].ratingKey \in KeysOf(unique_tracks)
             ELSE /\ ItemsRead(j) # {}
                  /\ \A x \in ItemsRead(j) : x.ratingKey \in KeysOf(tracks_to_sync)

\* C10 (as stated): an invocation made while the Plex client is not
\* initialised ends with an error to the caller.
C10_TopLevelFailureRaises ==
    (pc = "done" /\ ~plex_ok) => result.status = "raised"

\* Collection is over and yielded no item.
NothingCollected ==
    /\ CollectDone
    /\ IF policy = "raves" THEN all_rated_tracks = <<>> ELSE track_info = <<>>

\* The zero-valued result of each method.
ZeroResult ==
    IF policy = "raves"
    THEN [status |-> "returned", added |-> 0, total |-> 0, tracks |-> <<>>]
    ELSE IF policy = "jam"
    THEN [status |-> "returned", total |-> 0, tracks |-> <<>>]
    ELSE [status |-> "returned", total |-> 0, tracks |-> <<>>, users_updated |-> 0]

\* C11: in every policy, when collection yields no item the invocation returns
\* the zero-valued result without raising, and every playlist of every replica
\* is as it was when the invocation started: none created, added to or
\* removed from.
C11_EmptyMergeNoOp ==
    NothingCollected =>
        /\ pc = "done"
        /\ result = ZeroResult
        /\ CatalogAsBefore

\* An empty merge with every replica read, where one replica has no playlist
\* (one the write step would create) and another has an empty one.
C11_Witness ==
    /\ NothingCollected /\ AllReadsOk /\ result = ZeroResult
    /\ \E i, j \in 1..Len(members) :
          /\ ~playlists[members[i]][playlist_name].exists
          /\ playlists[members[j]][playlist_name] = Playlist(<<>>)

\* The invocation has returned and none of its reads or writes raised.
FailureFree ==
    /\ pc = "done" /\ result.status = "returned"
    /\ \A i \in 1..Len(rlog) : rlog[i] = "ok"
    /\ \A i \in 1..Len(wlog) : wlog[i] = "none"

\* C12 (as stated): when a replica's read raised in one invocation of
\* sync_jam_jar or sync_staff_picks, the next invocation, if failure-free,
\* merges every key some listed replica held before the bad invocation, and
\* every target has a playlist of the title that holds them: no item is
\* permanently lost.
C12_SelfHealing ==
    ( /\ policy \in {"jam", "staff"} /\ run >= 2 /\ FailureFree
      /\ \E i \in 1..Len(prev.rlog) : prev.rlog[i] = "fail" ) =>
        /\ prev.held \subseteq KeysOf(tracks_to_sync)
        /\ \A j \in 1..Len(Targets) :
              prev.held # {} =>
                  \E n \in 1..Len(TitleLists(Targets[j])) :
                      prev.held \subseteq KeysOf(TitleLists(Targets[j])[n])

\* C13 (as stated): when two invocations of sync_jam_jar have both completed
\* with their catalog calls interleaved and none of them raising, every key
\* that some member's playlist held before either started is still in a
\* playlist of that title of some member.
C13_ConcurrentNoLoss ==
    ( /\ policy = "jam"
      /\ \A v \in Inv :
            /\ frame[v].pc = "done"
            /\ \A j \in 1..Len(frame[v].wlog) : frame[v].wlog[j] = "none" ) =>
        \A k \in HeldKeys(pre) :
            \E i \in 1..Len(members) :
                \/ k \in KeysOf(playlists[members[i]][playlist_name].items)
                \/ \E d \in 1..Len(dups[members[i]]) :
                       k \in KeysOf(dups[members[i]][d])

\* C14: at every point of sync_jam_jar between the write to one member and
\* the write to the next, where an abort leaves the catalog as it is, every
\* member already processed holds exactly the merged sequence and every member
\* not yet processed holds exactly what it held when the invocation started
\* (no write of the invocation having raised).
C14_AbortBetweenReplicas ==
    ( /\ policy = "jam" /\ pc = "write"
      /\ \A i \in 1..Len(wlog) : wlog[i] = "none" ) =>
        \A j \in 1..Len(members) :
            IF j < idx THEN Replaced(j) ELSE Untouched(j)

\* Between two members: one processed member's playlist was replaced, and a
\* member still to come holds something else than the merged sequence.
C14_Witness ==
    /\ policy = "jam" /\ pc = "write" /\ idx > 1
    /\ \A i \in 1..Len(wlog) : wlog[i] = "none"
    /\ \E i \in 1..(idx - 1) :
          /\ pre[members[i]][playlist_name].items # <<>>
          /\ pre[members[i]][playlist_name] # Playlist(tracks_to_sync)
          /\ playlists[members[i]][playlist_name] = Playlist(tracks_to_sync)
    /\ \E j \in idx..Len(members) :
          /\ playlists[members[j]][playlist_name] = pre[members[j]][playlist_name]
          /\ playlists[members[j]][playlist_name] # Playlist(tracks_to_sync)

\* The timestamps the merged sequence is ordered by, in its order.
MergedTimes ==
    IF policy = "raves"
    THEN [i \in 1..Len(unique_tracks) |-> unique_tracks[i].lastRatedAt]
    ELSE [i \in 1..Len(track_list) |-> track_list[i].added_at]

\* track_info after the reads of replicas 1..i, as a function of the catalog
\* at the start of the invocation and of where each read ended.
RECURSIVE FoldRead(_)
FoldRead(i) ==
    IF i = 0 THEN <<>>
    ELSE FoldItems(FoldRead(i - 1), ItemsSeen(i), 1, members[i])

\* The place where the merged entry at position n was first collected.
CollectedAt(n) ==
    IF policy = "raves"
    THEN LET collected == RatedRead(Len(rlog))
         IN  CHOOSE i \in 1..Len(collected) :
                 /\ collected[i] = unique_tracks[n]
                 /\ \A j \in 1..(i - 1) : collected[j] # unique_tracks[n]
    ELSE IndexOfKey(track_info, track_list[n].key)

\* C15: in every policy the merged sequence and the track list are in the
\* same order, by timestamp descending with the entries without a timestamp
\* last; entries with equal timestamps are in the order they were collected
\* in; and the merged sequence is a function of the catalog state at the start
\* and the replica list (for the reads that succeeded), so two invocations on
\* the same state and list yield the identical sequence.
C15_OrderedDeterministic ==
    MergeDone =>
        /\ TrackListKeys(track_list) = MergedKeys
        /\ LET times == MergedTimes
           IN  \A a, b \in 1..Len(times) :
                  a < b =>
                     /\ times[a] >= times[b]
                     /\ times[b] = NoTime \/ times[a] # NoTime
                     /\ times[a] = times[b] => CollectedAt(a) < CollectedAt(b)
        /\ policy = "raves" =>
              unique_tracks = UniqueTracks(RatedRead(Len(rlog)), max_songs)
        /\ policy # "raves" =>
              LET folded == FoldRead(Len(rlog))
              IN  /\ tracks_to_sync = TracksToSync(folded)
                  /\ track_list = MemberTrackList(folded)

\* A merge, with every replica read, whose first two entries carry the same
\* timestamp: their order is the order they were collected in.
C15_Witness ==
    /\ MergeDone /\ AllReadsOk /\ Len(MergedTimes) >= 2
    /\ MergedTimes[1] = MergedTimes[2]
    /\ MergedTimes[1] # NoTime
    /\ CollectedAt(1) < CollectedAt(2)

\* The latest lastRatedAt collected for key k is at least t.
RatedSince(k, t) ==
    \E i \in 1..Len(all_rated_tracks) :
        all_rated_tracks[i].ratingKey = k /\ all_rated_tracks[i].lastRatedAt >= t

\* C16 (as stated): for every max_songs the merged sequence of
\* update_recent_raves, the returned total and the track list have at most
\* max_songs entries, and they are the distinct keys most recently rated: each
\* carries the latest timestamp of its key, no collected key left out was
\* rated later than a key taken, and keys are left out only when the cap is
\* reached.
C16_MergeCap ==
    (policy = "raves" /\ MergeDone) =>
        /\ Len(unique_tracks) <= max_songs
        /\ Len(track_list) <= max_songs
        /\ pc = "done" => result.total <= max_songs
        /\ \A n \in 1..Len(unique_tracks) :
              /\ ~RatedSince(unique_tracks[n].ratingKey, unique_tracks[n].lastRatedAt + 1)
              /\ \A k \in CollectedKeys \ KeysOf(unique_tracks) :
                    ~RatedSince(k, unique_tracks[n].lastRatedAt + 1)
        /\ KeysOf(unique_tracks) # CollectedKeys => Len(unique_tracks) = max_songs

\* The same for max_songs >= 1.
C16_MergeCapPositive == max_songs >= 1 => C16_MergeCap

\* C17: users_updated returned by sync_staff_picks is the number of write
\* targets (the admin and each Home user enumerated) whose write completed
\* without raising, each of which holds the merged sequence; a target whose
\* write raised is not counted, and total is the length of the merge whatever
\* the writes did.
C17_UsersUpdatedCountsSuccesses ==
    (policy = "staff" /\ pc = "done" /\ result.status = "returned"
        /\ ~NothingCollected) =>
        /\ Len(wlog) = Len(Targets)
        /\ result.users_updated =
              Cardinality({j \in 1..Len(wlog) : wlog[j] = "none"})
        /\ \A j \in 1..Len(wlog) : wlog[j] = "none" => Written(j)
        /\ result.total = Len(tracks_to_sync)
        /\ result.total = Cardinality(CollectedKeys)

\* A broadcast in which one target's write raised and the others were
\* written and counted.
C17_Witness ==
    /\ policy = "staff" /\ pc = "done" /\ result.status = "returned"
    /\ Len(wlog) >= 3
    /\ \E j \in 1..Len(wlog) : wlog[j] # "none"
    /\ result.users_updated = Len(wlog) - 1
    /\ result.total > 0

\* What the contributor at position j counts for in `added` as the claim has
\* it: the items appended to its playlist or placed in its new playlist when
\* its write step completed, nothing when the step raised.
AddedBy(j) ==
    LET was == pre[members[j]][playlist_name]
    IN  IF wlog[j] # "none" THEN 0
        ELSE IF was.exists THEN Len(NewTracks(unique_tracks, was.items))
        ELSE Len(unique_tracks)

RECURSIVE SumAdded(_)
SumAdded(j) == IF j = 0 THEN 0 ELSE SumAdded(j - 1) + AddedBy(j)

\* C18 (as stated): added returned by update_recent_raves is the sum of the
\* items appended or placed over the contributors whose write step completed
\* without raising; a contributor whose write step raised, the trimming
\* removal after the append included, contributes 0.
C18_AddedCountsSuccesses ==
    (policy = "raves" /\ pc = "done" /\ result.status = "returned"
        /\ ~NothingCollected) =>
        result.added = SumAdded(Len(wlog))

\* C19: in every policy, as long as the invocation is collecting or has not
\* yet computed its merge, every playlist of every replica is as it was when
\* the invocation started and no write was attempted; a playlist differs from
\* its state at the start only once every listed replica has been read or
\* skipped and the merge has been computed.
C19_CollectionReadOnly ==
    /\ pc = "collect" => (CatalogAsBefore /\ wlog = <<>>)
    /\ (~CatalogAsBefore \/ wlog # <<>>) =>
          /\ Len(rlog) = Len(members)
          /\ MergeDone

\* Collection has read every replica, one of them without a playlist of the
\* title, and holds items that the write step will have to write.
C19_Witness ==
    /\ pc = "collect" /\ idx > Len(members) /\ AllReadsOk
    /\ CatalogAsBefore
    /\ \E i \in 1..Len(members) : ~playlists[members[i]][playlist_name].exists
    /\ IF policy = "raves" THEN all_rated_tracks # <<>> ELSE track_info # <<>>

\* C20: an invocation of update_recent_raves leaves every playlist of a user
\* who is not in the contributors list, and every playlist of another title
\* than playlist_name, as it was when the invocation started, and creates no
\* playlist for a user who is not in the list.
C20_RavesTargetsContributorsOnly ==
    policy = "raves" =>
        \A u \in Users :
            /\ \A n \in PlaylistNames :
                  (u \notin Range(members) \/ n # playlist_name) =>
                      playlists[u][n] = pre[u][n]
            /\ u \notin Range(members) => dups[u] = pre_dups[u]

\* update_recent_raves has written both contributors' playlists; there are
\* users outside the list with and without a playlist of the title.
C20_Witness ==
    /\ policy = "raves" /\ pc = "done" /\ AllWritesOk
    /\ \A i \in 1..Len(members) :
          playlists[members[i]][playlist_name] # pre[members[i]][playlist_name]
    /\ \E u \in Users \ Range(members) : playlists[u][playlist_name].exists
    /\ \E u \in Users \ Range(members) : ~playlists[u][playlist_name].exists

\* What the contributor at position j held when the invocation started, and
\* what it holds now.
Was(j) == pre[members[j]][playlist_name]
Now(j) == playlists[members[j]][playlist_name]

IsPrefix(a, b) == Len(a) <= Len(b) /\ a = SubSeq(b, 1, Len(a))

\* The merged items whose key is not among the keys of items, in merged order.
RECURSIVE Difference(_, _, _)
Difference(merged, items, n) ==
    IF n > Len(merged) THEN <<>>
    ELSE (IF \E p \in 1..Len(items) : items[p].ratingKey = merged[n].ratingKey
          THEN <<>> ELSE <<merged[n]>>)
         \o Difference(merged, items, n + 1)

\* C21: for every contributor of update_recent_raves that had the playlist
\* (one the test "if playlist:" takes for found) and whose write step has
\* run, the playlist is a prefix of its previous items
\* followed by the merged items whose key it did not hold, in merged order;
\* all of them are there when the cap is not exceeded (or the trim raised);
\* and every previous item at a position up to max_songs is still at that
\* position, merged or not.
C21_AppendsOnlyDifference ==
    policy = "raves" =>
        \A j \in 1..Len(wlog) :
            Truthy(Was(j)) =>
                LET was == Was(j).items
                    now == Now(j).items
                    all == was \o Difference(unique_tracks, was, 1)
                IN  /\ Now(j).exists
                    /\ IsPrefix(now, all)
                    /\ (wlog[j] = "trim" \/ (wlog[j] = "none" /\ Len(all) <= max_songs))
                          => now = all
                    /\ \A p \in 1..Len(was) :
                          p <= max_songs => (p <= Len(now) /\ now[p] = was[p])

\* A contributor held a key of the merge; its write step ran without raising
\* and appended the other merged key only, after the item it held.
C21_Witness ==
    /\ policy = "raves" /\ pc = "done"
    /\ \E j \in 1..Len(wlog) :
          /\ wlog[j] = "none" /\ Truthy(Was(j))
          /\ Len(unique_tracks) = 2
          /\ \E p \in 1..Len(Was(j).items) :
                Was(j).items[p].ratingKey \in KeysOf(unique_tracks)
          /\ Len(Now(j).items) = Len(Was(j).items) + 1

\* The keys for which some search result of a contributor read so far carries
\* a lastRatedAt.
KeysRatedWithTime ==
    {k \in RatedKeys :
        \E i \in 1..Len(rlog) : \E p \in 1..Len(rated[members[i]]) :
            /\ rated[members[i]][p].ratingKey = k
            /\ rated[members[i]][p].lastRatedAt # NoTime}

\* C22: in update_recent_raves an item without lastRatedAt is never collected:
\* every collected and every merged item carries a lastRatedAt, a key that no
\* contributor rated with a lastRatedAt is neither in the merged sequence nor
\* in the track list, and every item a contributor's playlist gained in the
\* invocation, or a playlist created in it holds, carries a lastRatedAt and is
\* one of those keys.
C22_UnratedExcluded ==
    policy = "raves" =>
        /\ \A i \in 1..Len(all_rated_tracks) : all_rated_tracks[i].lastRatedAt # NoTime
        /\ \A i \in 1..Len(unique_tracks) :
              /\ unique_tracks[i].lastRatedAt # NoTime
              /\ unique_tracks[i].ratingKey \in KeysRatedWithTime
        /\ \A k \in DOMAIN track_users : k \in KeysRatedWithTime
        /\ \A i \in 1..Len(track_list) :
              /\ track_list[i].track.lastRatedAt # NoTime
              /\ track_list[i].track.ratingKey \in KeysRatedWithTime
        /\ result \notin {NoResult, Raised} =>
              \A i \in 1..Len(result.tracks) :
                  result.tracks[i].track.lastRatedAt # NoTime
        /\ \A j \in 1..Len(wlog) :
              \A t \in Range(Now(j).items) \ Range(Was(j).items) :
                  t.lastRatedAt # NoTime /\ t.ratingKey \in KeysRatedWithTime
        /\ \A u \in Users :
              \A d \in (Len(pre_dups[u]) + 1)..Len(dups[u]) :
                  \A t \in Range(dups[u][d]) :
                      t.lastRatedAt # NoTime /\ t.ratingKey \in KeysRatedWithTime

\* A contributor's search returned a 5-star track without lastRatedAt and one
\* with it; the run completed, wrote the second into a playlist, and the key
\* of the first is in no written playlist.
C22_Witness ==
    /\ policy = "raves" /\ pc = "done"
    /\ \E i \in 1..Len(rlog) :
          /\ rlog[i] = "ok"
          /\ \E p \in 1..Len(rated[members[i]]) :
                /\ rated[members[i]][p].lastRatedAt = NoTime
                /\ rated[members[i]][p].ratingKey \notin KeysRatedWithTime
                /\ \A j \in 1..Len(wlog) :
                      rated[members[i]][p].ratingKey \notin KeysOf(Now(j).items)
    /\ \E j \in 1..Len(wlog) :
          wlog[j] = "none" /\ Range(Now(j).items) \ Range(Was(j).items) # {}

\* C23: in sync_jam_jar and sync_staff_picks, a replica that has no playlist
\* of the title is read without a failure when no catalog call raises, its
\* read adds no key to the merge record (every key of the record is held by
\* another replica that was read), and the invocation goes on; in
\* sync_jam_jar the write step of such a replica, when it raises nothing,
\* creates the playlist with the merged sequence.
C23_MissingPlaylistIsEmpty ==
    policy \in {"jam", "staff"} =>
        /\ \A i \in 1..Len(rlog) :
              ~pre[members[i]][playlist_name].exists =>
                  /\ (plex_ok /\ fails = 0) => rlog[i] = "ok"
                  /\ \A n \in 1..Len(track_info) :
                        \E h \in Reads \ {i} :
                            track_info[n].key \in {x.ratingKey : x \in ItemsRead(h)}
                  /\ (rlog[i] = "ok" /\ Len(rlog) = i /\ i < Len(members)) =>
                        (pc = "collect" /\ idx = i + 1 /\ result = NoResult)
        /\ policy = "jam" =>
              \A j \in 1..Len(wlog) :
                  (~Was(j).exists /\ wlog[j] = "none") =>
                      Now(j) = Playlist(tracks_to_sync)

\* sync_jam_jar has returned, no call raised, a member had no playlist when
\* the invocation started, the merge of the others' playlists was not empty,
\* and that member now holds it.
C23_Witness ==
    /\ policy = "jam" /\ pc = "done" /\ fails = 0 /\ AllReadsOk
    /\ Len(wlog) = Len(members)
    /\ tracks_to_sync # <<>>
    /\ \E j \in 1..Len(members) :
          /\ ~Was(j).exists
          /\ j < Len(members)
          /\ Now(j) = Playlist(tracks_to_sync)

\* The items the membership collection has folded so far, each with the
\* replica it was read from, in the order of the fold.
RECURSIVE FoldedItems(_)
FoldedItems(i) ==
    IF i = 0 THEN <<>>
    ELSE FoldedItems(i - 1) \o
         [p \in 1..rcount[i] |-> [item |-> ItemsSeen(i)[p], user |-> members[i]]]

\* The merge records after 0, 1, ..., n iterations of the fold of the items
\* f: entry m + 1 is the record after the first m iterations.
RECURSIVE FoldTrace(_, _)
FoldTrace(f, n) ==
    IF n = 0 THEN << <<>> >>
    ELSE LET tr == FoldTrace(f, n - 1)
         IN  Append(tr, FoldItem(tr[n], f[n].item, f[n].user))

\* One iteration of the fold takes the record a to the record b: the records
\* of a are kept in place, a timestamp once set is never raised, and the
\* attribution changes only with a timestamp that is set for the first time
\* or strictly lowered.
FoldStepOk(a, b) ==
    /\ Len(b) >= Len(a)
    /\ \A p \in 1..Len(a) :
          /\ b[p].key = a[p].key
          /\ a[p].added_at # NoTime =>
                (b[p].added_at # NoTime /\ b[p].added_at <= a[p].added_at)
          /\ b[p].added_by # a[p].added_by =>
                /\ b[p].added_at # NoTime
                /\ a[p].added_at = NoTime \/ b[p].added_at < a[p].added_at

\* C24: in the membership merge the record in track_info is the fold of the
\* items read so far, and after every iteration of that fold it has at most
\* one entry per key, no entry's timestamp has been raised, and an entry's
\* attributed replica has changed only in an iteration that set its timestamp
\* for the first time or strictly lowered it.
C24_FoldInvariant ==
    policy \in {"jam", "staff"} =>
        LET f  == FoldedItems(Len(rlog))
            n  == Len(f)
            tr == FoldTrace(f, n)
        IN  /\ track_info = tr[n + 1]
            /\ \A m \in 0..n :
                  \A p, q \in 1..Len(tr[m + 1]) :
                      tr[m + 1][p].key = tr[m + 1][q].key => p = q
            /\ \A m \in 1..n : FoldStepOk(tr[m], tr[m + 1])

\* The fold has met a key a second time with a strictly earlier timestamp:
\* the entry's timestamp was lowered and its attribution moved to the later
\* replica, which track_info still names.
C24_Witness ==
    /\ policy \in {"jam", "staff"}
    /\ LET f  == FoldedItems(Len(rlog))
           n  == Len(f)
           tr == FoldTrace(f, n)
       IN  /\ track_info = tr[n + 1]
           /\ \E m \in 1..n : \E p \in 1..Len(tr[m]) :
                 /\ tr[m][p].added_at # NoTime
                 /\ tr[m + 1][p].added_at < tr[m][p].added_at
                 /\ tr[m + 1][p].added_by # tr[m][p].added_by
                 /\ track_info[p].added_by = tr[m + 1][p].added_by

\* sync_staff_picks has returned a non-empty merge and no write raised.
BroadcastDone ==
    /\ policy = "staff" /\ pc = "done" /\ result.status = "returned"
    /\ result.total > 0 /\ AllWritesOk

\* C25 (as stated): after a failure-free run of sync_staff_picks the admin and
\* every user known to the account hold the merged playlist.
C25_BroadcastAllKnown ==
    BroadcastDone =>
        \A u \in {Admin} \cup Range(AccountUsers) : Holds(u, tracks_to_sync)

\* C25 (amended): the merge holds keys of the curators' playlists only; after
\* a failure-free run the admin and every Home user of the account, curator or
\* not, hold the merged playlist; an account user that is not a Home user is
\* left as it was.
C25_BroadcastHomeScope ==
    BroadcastDone =>
        /\ KeysOf(tracks_to_sync) \subseteq
              UNION {KeysOf(pre[members[i]][StaffName].items) : i \in 1..Len(members)}
        /\ \A u \in {Admin} \cup Range(AccountUsers) :
              IF u = Admin \/ home[u]
              THEN Holds(u, tracks_to_sync)
              ELSE /\ playlists[u][StaffName] = pre[u][StaffName]
                   /\ dups[u] = pre_dups[u]

\* A failure-free broadcast in which a Home user who is no curator received
\* the merged playlist and an account user outside the Home was left without
\* it.
C25_Witness ==
    /\ BroadcastDone /\ AllReadsOk
    /\ \E u \in Range(AccountUsers) \ Range(members) :
          /\ home[u]
          /\ pre[u][StaffName] # Playlist(tracks_to_sync)
          /\ playlists[u][StaffName] = Playlist(tracks_to_sync)
    /\ \E u \in Range(AccountUsers) :
          ~home[u] /\ ~playlists[u][StaffName].exists

\* The number of new tracks found for the contributors 1..j.
RECURSIVE SumNew(_)
SumNew(j) ==
    IF j = 0 THEN 0
    ELSE SumNew(j - 1) +
         (IF Truthy(Was(j)) THEN Len(Difference(unique_tracks, Was(j).items, 1))
          ELSE Len(unique_tracks))

\* C26: when a write step of update_recent_raves on an existing playlist (one
\* the test "if playlist:" takes for found) with new tracks has completed
\* without raising, the playlist is the first max_songs elements of its previous items followed by the new tracks in
\* merged order; when the previous playlist held max_songs items or more,
\* none of the new tracks is in it; and as long as no write step raised, the
\* added count is the number of new tracks found, kept or not.
C26_TrimKeepsPrefix ==
    policy = "raves" =>
        /\ \A j \in 1..Len(wlog) :
              LET was == Was(j).items
                  new == Difference(unique_tracks, was, 1)
                  all == was \o new
                  now == Now(j).items
              IN  (wlog[j] = "none" /\ Truthy(Was(j)) /\ new # <<>>) =>
                      /\ Len(now) = (IF Len(all) < max_songs THEN Len(all) ELSE max_songs)
                      /\ \A p \in 1..Len(now) : now[p] = all[p]
                      /\ Len(was) >= max_songs =>
                            \A p \in 1..Len(new) : new[p].ratingKey \notin KeysOf(now)
        /\ (pc \notin MidWritePcs /\ \A j \in 1..Len(wlog) : wlog[j] = "none") =>
              total_added = SumNew(Len(wlog))
        /\ (pc = "done" /\ result.status = "returned" /\ Len(wlog) = Len(members)
              /\ \A j \in 1..Len(wlog) : wlog[j] = "none") =>
              result.added = SumNew(Len(members))

\* update_recent_raves has returned without a failure; a contributor's
\* playlist was at the cap (of at least one item), had a new track appended,
\* and is as it was before, while added counts the new track.
C26_Witness ==
    /\ policy = "raves" /\ pc = "done" /\ result.status = "returned"
    /\ max_songs >= 1
    /\ \A j \in 1..Len(wlog) : wlog[j] = "none"
    /\ result.added >= 1
    /\ \E j \in 1..Len(wlog) :
          /\ Truthy(Was(j))
          /\ Len(Was(j).items) >= max_songs
          /\ Difference(unique_tracks, Was(j).items, 1) # <<>>
          /\ Now(j).items = SubSeq(Was(j).items, 1, max_songs)
          /\ result.added >= Len(Difference(unique_tracks, Was(j).items, 1))

\* What the write target at position j held when the invocation started, and
\* what it holds now.
TargetWas(j) == pre[Targets[j]][playlist_name]
TargetNow(j) == playlists[Targets[j]][playlist_name]

\* C27: in sync_jam_jar and sync_staff_picks, every target whose write step
\* has run holds the merged sequence when the step raised nothing (an empty
\* playlist that the test of the handle took for none is left empty, the
\* merged sequence being in a new playlist of the title), an empty
\* playlist when it had a playlist, the removal went through and addItems
\* raised, and what it held at the start of the invocation otherwise; a user
\* that is no target, or whose step has not begun, holds what it held at the
\* start.  So does every playlist when the method has returned: the emptied
\* playlist is neither refilled nor restored.
C27_PartialWriteStates ==
    policy \in {"jam", "staff"} =>
        /\ Len(wlog) <= Len(Targets)
        /\ \A j \in 1..Len(wlog) :
              TargetNow(j) =
                  IF wlog[j] = "none"
                  THEN (IF TargetWas(j).exists /\ ~Truthy(TargetWas(j))
                        THEN TargetWas(j) ELSE Playlist(tracks_to_sync))
                  ELSE IF wlog[j] = "add" /\ TargetWas(j).exists THEN Playlist(<<>>)
                  ELSE TargetWas(j)
        /\ \A u \in Users :
              ( /\ \A j \in 1..Len(wlog) : Targets[j] # u
                /\ pc \in MidWritePcs => Targets[Len(wlog) + 1] # u ) =>
                  /\ playlists[u][playlist_name] = pre[u][playlist_name]
                  /\ dups[u] = pre_dups[u]
        /\ (pc = "done" /\ result.status = "returned") =>
              \A u \in Users :
                  playlists[u][playlist_name] \in
                      {pre[u][playlist_name], Playlist(<<>>), Playlist(tracks_to_sync)}

\* The method has returned; one target's playlist, which held items, is left
\* empty by an addItems that raised, and another target, which held something
\* else, holds the merged sequence.
C27_Witness ==
    /\ policy \in {"jam", "staff"} /\ pc = "done" /\ result.status = "returned"
    /\ tracks_to_sync # <<>>
    /\ \E j, h \in 1..Len(wlog) :
          /\ wlog[j] = "add" /\ TargetWas(j).exists /\ TargetWas(j).items # <<>>
          /\ TargetNow(j) = Playlist(<<>>)
          /\ wlog[h] = "none" /\ TargetNow(h) = Playlist(tracks_to_sync)
          /\ TargetWas(h) # TargetNow(h)

\* The item it meets a key that the record a holds already, at position p.
FoldMeets(a, it, p) == p \in 1..Len(a) /\ a[p].key = it.ratingKey

\* C28: in the membership merge, an iteration of the fold that meets a key
\* already recorded leaves the record as it is when the item has no timestamp
\* or has the record's own timestamp (the record stays with the replica
\* folded first), and gives the record the item's timestamp and replica when
\* the record has no timestamp and the item has one.
C28_TieAndMissingTimestamps ==
    policy \in {"jam", "staff"} =>
        LET f  == FoldedItems(Len(rlog))
            n  == Len(f)
            tr == FoldTrace(f, n)
        IN  /\ track_info = tr[n + 1]
            /\ \A m \in 1..n : \A p \in 1..n :
                  FoldMeets(tr[m], f[m].item, p) =>
                      LET a == tr[m]
                          b == tr[m + 1]
                          t == f[m].item.addedAt
                      IN  /\ (t = NoTime \/ t = a[p].added_at) => b = a
                          /\ (t # NoTime /\ a[p].added_at = NoTime) =>
                                /\ b[p].added_at = t
                                /\ b[p].added_by = f[m].user
                                /\ \A q \in 1..Len(a) : q # p => b[q] = a[q]

\* The fold met a key again, from another replica and with the timestamp the
\* record had, and the record is still the first replica's; and it met a key
\* whose record had no timestamp with an item that has one.
C28_Witness ==
    /\ policy \in {"jam", "staff"}
    /\ LET f  == FoldedItems(Len(rlog))
           n  == Len(f)
           tr == FoldTrace(f, n)
       IN  /\ \E m \in 1..n : \E p \in 1..n :
                 /\ FoldMeets(tr[m], f[m].item, p)
                 /\ f[m].item.addedAt # NoTime
                 /\ f[m].item.addedAt = tr[m][p].added_at
                 /\ f[m].user # tr[m][p].added_by
                 /\ track_info[p].added_by = tr[m][p].added_by
           /\ \E m \in 1..n : \E p \in 1..n :
                 /\ FoldMeets(tr[m], f[m].item, p)
                 /\ f[m].item.addedAt # NoTime
                 /\ tr[m][p].added_at = NoTime
                 /\ tr[m + 1][p].added_at = f[m].item.addedAt

\* The calls that raised in the reads and the writes of this invocation.
RaisedInLoops ==
    Cardinality({i \in 1..Len(rlog) : rlog[i] = "fail"})
    + Cardinality({j \in 1..Len(wlog) : wlog[j] # "none"})

\* C29: when sync_staff_picks has raised, it had computed a non-empty merge,
\* no write was attempted and every playlist of every user, the admin's
\* included, is as it was when the invocation started; and (in a first
\* invocation) a call that raised outside the read and write loops, which is
\* the enumeration of the users, has left the method with the exception.
C29_EnumerationFailureAborts ==
    policy = "staff" =>
        /\ result = Raised =>
              /\ pc = "done"
              /\ tracks_to_sync # <<>>
              /\ wlog = <<>> /\ users_updated = 0
              /\ CatalogAsBefore
        /\ (run = 1 /\ plex_ok /\ fails > RaisedInLoops) => result = Raised

\* The enumeration raised after a merge of two curators' items; the admin,
\* who held another playlist than the merge, still holds it.
C29_Witness ==
    /\ policy = "staff" /\ result = Raised /\ AllReadsOk
    /\ tracks_to_sync # <<>>
    /\ pre[Admin][StaffName] # Playlist(tracks_to_sync)
    /\ playlists[Admin][StaffName] = pre[Admin][StaffName]
    /\ fails > RaisedInLoops

\* The keys of a sequence of items, in its order.
KeySeq(items) == [i \in 1..Len(items) |-> items[i].ratingKey]

\* A second or later invocation of sync_jam_jar has returned without a
\* failure, the one before it read every member, and it started from the
\* state a failure-free pass leaves: every member holding one and the same
\* non-empty item sequence.
SecondRunOnConverged ==
    /\ policy = "jam" /\ run >= 2 /\ FailureFree /\ AllReadsOk /\ AllWritesOk
    /\ \A i \in 1..Len(prev.rlog) : prev.rlog[i] = "ok"
    /\ pre[members[1]][playlist_name].exists
    /\ pre[members[1]][playlist_name].items # <<>>
    /\ \A i \in 1..Len(members) :
          pre[members[i]][playlist_name] = pre[members[1]][playlist_name]

\* C30 (as stated): a second failure-free run of sync_jam_jar on the state the
\* first run wrote leaves every member's item sequence as the first run wrote
\* it and returns the same total and the same key order in tracks.
C30_SecondRunIdentical ==
    SecondRunOnConverged =>
        LET first == pre[members[1]][playlist_name].items
        IN  /\ \A i \in 1..Len(members) :
                  playlists[members[i]][playlist_name].items = first
            /\ result.total = Len(first)
            /\ TrackListKeys(result.tracks) = KeySeq(first)

=============================================================================
